---- MODULE Spec2Model ----
(***************************************************************************)
(* The hierarchical scene model of src/game/editor/model.py (EditorModel): *)
(* node table, creation order, id and label allocators, selection, bounded *)
(* movement and recursive subtree deletion.                                *)
(*                                                                         *)
(* Python's None is the integer None (-1) where an id is expected.         *)
(* Coordinates are small integers: pygame.Vector2 holds floats, and every  *)
(* sum, difference and product the code computes is exact on them.         *)
(***************************************************************************)
EXTENDS Integers, Sequences, FiniteSets, TLC

VARIABLES
    nodes,          \* self.nodes: dict[int, Node]
    order,          \* self._order: list[int]
    label_counts,   \* self._label_counts: dict[str, int]
    next_id,        \* self._next_id
    selected_id,    \* self.selected_id
    call,           \* history: the last operation called, with its arguments
    ret,            \* history: what the last operation returned
    factory_calls,  \* history: how many times an item factory was invoked
    issued,         \* history: per base name, the labels given out, in order
    allocated,      \* history: the ids given to spawned nodes, in order
    del_log,        \* history: the steps of the last delete_selected, in order
    rt              \* the caller's place in the round trip of SpecRoundTrip

vars == <<nodes, order, label_counts, next_id, selected_id,
          call, ret, factory_calls, issued, allocated, del_log, rt>>

history == <<factory_calls, issued, allocated>>

model_state == <<nodes, order, label_counts, next_id, selected_id>>

----------------------------------------------------------------------------
(* Bounds and input sets *)

\* The most nodes spawned over a model's lifetime.
MaxSpawns == 3

None == -1

root_id == 0

Ids == 0..MaxSpawns

IdOrNone == Ids \cup {None}

Kinds == {"entity", "environment"}

\* Palette indices tried: the registry knows (entity, 0), (environment, 0) and
\* (environment, 1), and has no item for (entity, 1).
Indices == {0, 1}

\* Points handed in as spawn positions.
SpawnPoints == {<<1, 1>>}

\* Canvas rectangles (pygame.Rect: right = left + width, bottom = top + height).
Rects == {[left |-> 0, top |-> 0, right |-> 4, bottom |-> 2]}

\* Desired positions of a drag, far outside the canvas on either side.
Desired == {<<9, 9>>, <<-9, 1>>}

\* Mouse positions of a click.
MousePoints == {<<0, 1>>, <<2, 1>>}

\* The most nodes spawned in SpecGeom, which moves them about more.
MaxGeomNodes == 2

\* Canvas rectangles of SpecGeom: one wider than any node, one smaller than
\* the diameter of a node of radius 1 on both axes.
GeomRects == {[left |-> 0, top |-> 0, right |-> 4, bottom |-> 2],
              [left |-> 2, top |-> 0, right |-> 3, bottom |-> 1]}

\* Desired positions of SpecGeom: far outside on either side, and inside.
GeomDesired == {<<9, 9>>, <<-9, -9>>, <<2, 1>>}

Range(s) == {s[i] : i \in DOMAIN s}

NoRect == [left |-> 0, top |-> 0, right |-> 0, bottom |-> 0]

\* The record of a call: the operation and the arguments it takes (the others
\* are left at a default).
Call(op, kind, idx, id, pos, rect) ==
    [op |-> op, kind |-> kind, idx |-> idx, id |-> id, pos |-> pos, rect |-> rect]

----------------------------------------------------------------------------
(* The palette registry and the payloads its factories build *)

NoItem == [name |-> "", has_pos |-> FALSE, radius |-> 0, found |-> FALSE]

Item(name, has_pos, radius) ==
    [name |-> name, has_pos |-> has_pos, radius |-> radius, found |-> TRUE]

\* registry.get_item(kind, idx): the item descriptor, or NoItem (None).
get_item(kind, idx) ==
    IF kind = "entity" /\ idx = 0 THEN Item("Rock", TRUE, 1)
    ELSE IF kind = "environment" /\ idx = 0 THEN Item("Rock", TRUE, 0)
    ELSE IF kind = "environment" /\ idx = 1 THEN Item("Zone", FALSE, 0)
    ELSE NoItem

NoPayload == [present |-> FALSE, has_pos |-> FALSE, pos |-> <<0, 0>>, radius |-> 0]

\* item.factory(pygame.Vector2(position))
factory(item, position) ==
    [present |-> TRUE,
     has_pos |-> item.has_pos,
     pos     |-> IF item.has_pos THEN position ELSE <<0, 0>>,
     radius  |-> item.radius]

----------------------------------------------------------------------------
(* Node *)

Node(id, kind, name, base_name, payload, parent) ==
    [id |-> id, kind |-> kind, name |-> name, base_name |-> base_name,
     payload |-> payload, parent |-> parent, children |-> <<>>]

\* EditorModel._create_root
_create_root ==
    Node(root_id, "root", "Scene Root", "Scene", NoPayload, None)

----------------------------------------------------------------------------
(* Creation *)

\* Faulty variant of allowed: environments may nest inside environments.
allowed_nested(child_kind) ==
    IF child_kind = "entity" THEN {"environment"}
    ELSE {"root", "entity", "environment"}

\* The kinds of parent a child kind may hang from.
allowed(child_kind) ==
    IF child_kind = "entity" THEN {"environment"} ELSE {"root", "entity"}

_parent_allows(parent_id, child_kind) ==
    IF parent_id \notin DOMAIN nodes
    THEN FALSE
    ELSE nodes[parent_id].kind \in allowed(child_kind)

\* Faulty variant of candidates: the selection is tried before the hint.
candidates_selection_first(parent_hint) ==
    LET c1 == <<selected_id>>
        c2 == IF parent_hint \notin Range(c1) THEN Append(c1, parent_hint) ELSE c1
    IN  Append(c2, root_id)

\* Faulty variant of candidates: the root is not appended.
candidates_no_root(parent_hint) ==
    LET c1 == <<parent_hint>>
    IN  IF selected_id \notin Range(c1) THEN Append(c1, selected_id) ELSE c1

\* The list _resolve_parent walks.
candidates(parent_hint) ==
    LET c1 == <<parent_hint>>
        c2 == IF selected_id \notin Range(c1) THEN Append(c1, selected_id) ELSE c1
    IN  Append(c2, root_id)

\* Faulty variant of _resolve_parent: the root is returned when no candidate qualifies.
_resolve_parent_root_fallback(child_kind, parent_hint) ==
    LET cs == candidates(parent_hint)
        ok == {i \in DOMAIN cs : cs[i] # None /\ _parent_allows(cs[i], child_kind)}
    IN  IF ok = {} THEN root_id
        ELSE cs[CHOOSE i \in ok : \A j \in ok : i <= j]

_resolve_parent(child_kind, parent_hint) ==
    LET cs == candidates(parent_hint)
        ok == {i \in DOMAIN cs : cs[i] # None /\ _parent_allows(cs[i], child_kind)}
    IN  IF ok = {} THEN None
        ELSE cs[CHOOSE i \in ok : \A j \in ok : i <= j]

\* dict.get(key, default)
Get(d, key, default) == IF key \in DOMAIN d THEN d[key] ELSE default

\* d[key] = value
Put(d, key, value) ==
    [k \in DOMAIN d \cup {key} |-> IF k = key THEN value ELSE d[k]]

\* Faulty variant of _make_label: the suffix counts the nodes of that base name now
\* in the table, so a deleted node's suffix is given out again.
_make_label_reuses(base) ==
    LET count == Cardinality({i \in DOMAIN nodes : nodes[i].base_name = base})
    IN  IF count = 0 THEN base ELSE base \o " #" \o ToString(count + 1)

\* Faulty variant of _make_label: no suffix is added.
_make_label_no_suffix(base) == base

\* The label _make_label returns; the counter update is make_label_counts.
_make_label(base) ==
    LET count == Get(label_counts, base, 0)
    IN  IF count = 0 THEN base ELSE base \o " #" \o ToString(count + 1)

make_label_counts(base) ==
    Put(label_counts, base, Get(label_counts, base, 0) + 1)

\* Faulty variant of _attach_child: the child is put first.
_attach_child_front(t, parent_id, child_id) ==
    IF parent_id \notin DOMAIN t
    THEN t
    ELSE [t EXCEPT ![parent_id].children = <<child_id>> \o @]

\* parent.children.append(child_id) in table t
_attach_child(t, parent_id, child_id) ==
    IF parent_id \notin DOMAIN t
    THEN t
    ELSE [t EXCEPT ![parent_id].children = Append(@, child_id)]

\* Faulty variant of alloc_id: the id is one more than the number of live nodes.
alloc_id_reuses == Len(order) + 1

\* id=self._next_id
alloc_id == next_id

\* Faulty variant of spawn_returns_none: a failed spawn clears the selection.
spawn_returns_none_deselects ==
    /\ ret' = None
    /\ selected_id' = None
    /\ UNCHANGED <<nodes, order, label_counts, next_id, history>>

\* The early returns of spawn_from_palette: return None, nothing touched.
spawn_returns_none ==
    /\ ret' = None
    /\ UNCHANGED <<model_state, history>>

spawn_from_palette(kind, idx, position, parent_hint) ==
    LET item      == get_item(kind, idx)
        parent_id == _resolve_parent(kind, parent_hint)
    IN  /\ call' = Call("spawn", kind, idx, parent_hint, position, NoRect)
        /\ del_log' = <<>>
        /\ IF ~item.found \/ parent_id = None
           THEN spawn_returns_none
           ELSE LET payload == factory(item, position)
                    label   == _make_label(item.name)
                    node    == Node(alloc_id, kind, label, item.name, payload, parent_id)
                IN  /\ next_id <= MaxSpawns
                    /\ factory_calls' = factory_calls + 1
                    /\ issued' = Put(issued, item.name,
                                     Append(Get(issued, item.name, <<>>), label))
                    /\ allocated' = Append(allocated, node.id)
                    /\ label_counts' = make_label_counts(item.name)
                    /\ nodes' = _attach_child(Put(nodes, node.id, node), parent_id, node.id)
                    /\ order' = Append(order, node.id)
                    /\ next_id' = next_id + 1
                    /\ selected_id' = node.id
                    /\ ret' = node.id

----------------------------------------------------------------------------
(* Selection *)

\* Faulty variant of select_node: the root can be selected.
select_node_root(node_id) ==
    IF node_id = None \/ node_id \notin DOMAIN nodes THEN None
    ELSE node_id

\* Faulty variant of select_node: an unknown id leaves the selection alone.
select_node_unknown_keeps(node_id) ==
    IF node_id = None THEN None
    ELSE IF node_id \notin DOMAIN nodes THEN selected_id
    ELSE IF node_id = root_id THEN None
    ELSE node_id

\* Faulty variant of select_node: None selects the root.
select_node_none_root(node_id) ==
    IF node_id = None THEN root_id
    ELSE IF node_id \notin DOMAIN nodes \/ node_id = root_id THEN None
    ELSE node_id

\* Faulty variant of select_node: None leaves the selection alone.
select_node_none_keeps(node_id) ==
    IF node_id = None THEN selected_id
    ELSE IF node_id \notin DOMAIN nodes \/ node_id = root_id THEN None
    ELSE node_id

\* The value select_node(node_id) leaves in selected_id.
select_node(node_id) ==
    IF node_id = None \/ node_id \notin DOMAIN nodes THEN None
    ELSE IF node_id = root_id THEN None
    ELSE node_id

SelectNode(node_id) ==
    /\ call' = Call("select", "", 0, node_id, <<0, 0>>, NoRect)
    /\ selected_id' = select_node(node_id)
    /\ ret' = None
    /\ del_log' = <<>>
    /\ UNCHANGED <<nodes, order, label_counts, next_id, history>>

\* Faulty variant of has_position: a payload without a pos counts as placed.
has_position_any(node) == node.payload.present

\* Node.position(): defined when the payload is there and has a pos.
has_position(node) == node.payload.present /\ node.payload.has_pos

\* Node.radius()
radius(node) == IF node.payload.present THEN node.payload.radius ELSE 0

\* The ids iter_drawable_nodes yields, in its order.
iter_drawable_nodes ==
    SelectSeq(order, LAMBDA id : id \in DOMAIN nodes /\ nodes[id].payload.present)

RECURSIVE _visit(_, _)
RECURSIVE visit_children(_, _)

\* Faulty variant of visit_children: the last child is visited first.
visit_children_reversed(children, depth) ==
    IF children = <<>> THEN <<>>
    ELSE visit_children(Tail(children), depth) \o _visit(Head(children), depth)

\* for child_id in node.children: yield from _visit(child_id, depth + 1),
\* with depth the depth of the children.
visit_children(children, depth) ==
    IF children = <<>> THEN <<>>
    ELSE _visit(Head(children), depth) \o visit_children(Tail(children), depth)

\* The pairs <<depth, node id>> the inner _visit of iter_tree yields.
_visit(node_id, depth) ==
    IF node_id \notin DOMAIN nodes THEN <<>>
    ELSE <<<<depth, node_id>>>> \o visit_children(nodes[node_id].children, depth + 1)

iter_tree == _visit(root_id, 0)

d2(mouse_pos, pos) ==
    (mouse_pos[1] - pos[1]) * (mouse_pos[1] - pos[1])
    + (mouse_pos[2] - pos[2]) * (mouse_pos[2] - pos[2])

RECURSIVE scan_last_wins(_, _, _, _)
\* Faulty variant of scan: a node at the same distance replaces the best so far.
scan_last_wins(ids, mouse_pos, best_id, best_d2) ==
    IF ids = <<>> THEN best_id
    ELSE LET node == nodes[Head(ids)]
         IN  IF ~has_position(node)
             THEN scan_last_wins(Tail(ids), mouse_pos, best_id, best_d2)
             ELSE LET d == d2(mouse_pos, node.payload.pos)
                  IN  IF best_d2 = None \/ d <= best_d2
                      THEN scan_last_wins(Tail(ids), mouse_pos, node.id, d)
                      ELSE scan_last_wins(Tail(ids), mouse_pos, best_id, best_d2)

RECURSIVE scan(_, _, _, _)
\* The loop of select_at_position over the drawable ids left to visit;
\* best_d2 = None stands for Python's None (no candidate yet).
scan(ids, mouse_pos, best_id, best_d2) ==
    IF ids = <<>> THEN best_id
    ELSE LET node == nodes[Head(ids)]
         IN  IF ~has_position(node)
             THEN scan(Tail(ids), mouse_pos, best_id, best_d2)
             ELSE LET d == d2(mouse_pos, node.payload.pos)
                  IN  IF best_d2 = None \/ d < best_d2
                      THEN scan(Tail(ids), mouse_pos, node.id, d)
                      ELSE scan(Tail(ids), mouse_pos, best_id, best_d2)

select_at_position(mouse_pos) ==
    LET best_id == scan(iter_drawable_nodes, mouse_pos, None, None)
    IN  /\ call' = Call("select_at", "", 0, None, mouse_pos, NoRect)
        /\ selected_id' = select_node(best_id)
        /\ ret' = best_id
        /\ del_log' = <<>>
        /\ UNCHANGED <<nodes, order, label_counts, next_id, history>>

Max(a, b) == IF a >= b THEN a ELSE b

Min(a, b) == IF a <= b THEN a ELSE b

\* Faulty variant of clamp: the upper bound is not applied.
clamp_no_upper(low, high, desired) == Max(low, desired)

\* Faulty variant of clamp: the upper bound is applied last.
clamp_upper_last(low, high, desired) == Min(high, Max(low, desired))

\* max(low, min(high, desired))
clamp(low, high, desired) == Max(low, Min(high, desired))

move_selected_within(canvas_rect, desired) ==
    /\ call' = Call("move", "", 0, None, desired, canvas_rect)
    /\ ret' = None
    /\ del_log' = <<>>
    /\ UNCHANGED <<order, label_counts, next_id, selected_id, history>>
    /\ IF selected_id = None \/ selected_id \notin DOMAIN nodes
       THEN UNCHANGED nodes
       ELSE LET node == nodes[selected_id]
                r    == radius(node)
            IN  IF ~has_position(node)
                THEN UNCHANGED nodes
                ELSE nodes' = [nodes EXCEPT ![selected_id].payload.pos =
                         <<clamp(canvas_rect.left + r, canvas_rect.right - r, desired[1]),
                           clamp(canvas_rect.top + r, canvas_rect.bottom - r, desired[2])>>]

----------------------------------------------------------------------------
(* Deletion *)

\* Faulty variant of Remove: nothing is filtered out.
Remove_keeps(s, x) == s

\* Faulty variant of Remove: the test is inverted, only x is kept.
Remove_inverted(s, x) == SelectSeq(s, LAMBDA e : e = x)

\* [e for e in s if e != x]
Remove(s, x) == SelectSeq(s, LAMBDA e : e # x)

Pop(t, id) == [k \in DOMAIN t \ {id} |-> t[k]]

\* Faulty variant of remove_children: the children are left in the table.
remove_children_skips(st, children) == st

RECURSIVE _remove_subtree(_, _)
RECURSIVE remove_children(_, _)

\* Faulty variant of remove_children: the children are handed to the root
\* instead of being removed.
remove_children_reparents(st, children) ==
    [st EXCEPT !.nodes = [i \in DOMAIN st.nodes |->
                             IF i \in Range(children)
                             THEN [st.nodes[i] EXCEPT !.parent = root_id]
                             ELSE st.nodes[i]]]

\* Faulty variant of remove_children: only the first child's subtree goes.
remove_children_first(st, children) ==
    IF children = <<>> THEN st ELSE _remove_subtree(st, Head(children))

\* for child_id in list(node.children): self._remove_subtree(child_id)
remove_children(st, children) ==
    IF children = <<>> THEN st
    ELSE remove_children(_remove_subtree(st, Head(children)), Tail(children))

\* Faulty variant of _remove_subtree: the node leaves the creation-order list
\* before its children are processed.
_remove_subtree_unorder_first(st, node_id) ==
    IF node_id \notin DOMAIN st.nodes THEN st
    ELSE LET node == st.nodes[node_id]
             s1   == [st EXCEPT !.nodes = Pop(st.nodes, node_id),
                                !.order = Remove(@, node_id),
                                !.log = Append(Append(@, <<"pop", node_id, node.parent>>),
                                               <<"unorder", node_id, node.parent>>)]
             s2   == remove_children(s1, node.children)
         IN  IF node.parent # None /\ node.parent \in DOMAIN s2.nodes
             THEN [s2 EXCEPT !.nodes[node.parent].children = Remove(@, node_id),
                             !.log = Append(@, <<"detach", node_id, node.parent>>)]
             ELSE s2

\* st holds the node table and the creation-order list the recursion works
\* on, and the log of what it has done so far: <<step, node id, its parent>>.
_remove_subtree(st, node_id) ==
    IF node_id \notin DOMAIN st.nodes THEN st
    ELSE LET node == st.nodes[node_id]
             s1   == [st EXCEPT !.nodes = Pop(st.nodes, node_id),
                                !.log = Append(@, <<"pop", node_id, node.parent>>)]
             s2   == remove_children(s1, node.children)
             s3   == IF node.parent # None /\ node.parent \in DOMAIN s2.nodes
                     THEN [s2 EXCEPT !.nodes[node.parent].children = Remove(@, node_id),
                                     !.log = Append(@, <<"detach", node_id, node.parent>>)]
                     ELSE s2
         IN  [s3 EXCEPT !.order = Remove(@, node_id),
                        !.log = Append(@, <<"unorder", node_id, node.parent>>)]

\* Faulty variant of selection_after_delete: the parent is selected even when it is
\* the root.
selection_after_delete_root(parent_id, st) ==
    IF parent_id # None /\ parent_id \in DOMAIN st.nodes
    THEN parent_id
    ELSE IF st.order # <<>> THEN st.order[Len(st.order)]
    ELSE None

\* Faulty variant of selection_after_delete: the fallback is the oldest node
\* left, not the newest.
selection_after_delete_first(parent_id, st) ==
    IF parent_id # None /\ parent_id \in DOMAIN st.nodes /\ parent_id # root_id
    THEN parent_id
    ELSE IF st.order # <<>> THEN st.order[1]
    ELSE None

\* Faulty variant of selection_after_delete: without a parent to select the
\* selection is cleared.
selection_after_delete_no_fallback(parent_id, st) ==
    IF parent_id # None /\ parent_id \in DOMAIN st.nodes /\ parent_id # root_id
    THEN parent_id
    ELSE None

\* The selection delete_selected leaves, given the removed node's parent and
\* the table and order after the removal.
selection_after_delete(parent_id, st) ==
    IF parent_id # None /\ parent_id \in DOMAIN st.nodes /\ parent_id # root_id
    THEN parent_id
    ELSE IF st.order # <<>> THEN st.order[Len(st.order)]
    ELSE None

delete_selected ==
    /\ call' = Call("delete", "", 0, None, <<0, 0>>, NoRect)
    /\ ret' = None
    /\ UNCHANGED <<label_counts, next_id, history>>
    /\ IF selected_id = None \/ selected_id \notin DOMAIN nodes
       THEN /\ del_log' = <<>>
            /\ UNCHANGED <<nodes, order, selected_id>>
       ELSE LET node      == nodes[selected_id]
                parent_id == node.parent
                st        == _remove_subtree(
                                 [nodes |-> nodes, order |-> order, log |-> <<>>],
                                 node.id)
            IN  /\ nodes' = st.nodes
                /\ order' = st.order
                /\ del_log' = st.log
                /\ selected_id' = selection_after_delete(parent_id, st)

----------------------------------------------------------------------------
(* The model as a state machine *)

Init ==
    /\ nodes = [i \in {root_id} |-> _create_root]
    /\ order = <<>>
    /\ label_counts = [b \in {} |-> 0]
    /\ next_id = 1
    /\ selected_id = None
    /\ call = Call("init", "", 0, None, <<0, 0>>, NoRect)
    /\ ret = None
    /\ factory_calls = 0
    /\ issued = [b \in {} |-> <<>>]
    /\ allocated = <<>>
    /\ del_log = <<>>
    /\ rt = [pc |-> "build", k |-> 0]

Spawn == \E kind \in Kinds, idx \in Indices, position \in SpawnPoints, hint \in IdOrNone :
             spawn_from_palette(kind, idx, position, hint) /\ UNCHANGED rt

Select == \E node_id \in IdOrNone : SelectNode(node_id) /\ UNCHANGED rt

SelectAt == \E mouse_pos \in MousePoints :
                select_at_position(mouse_pos) /\ UNCHANGED rt

Move == \E canvas_rect \in Rects, desired \in Desired :
            move_selected_within(canvas_rect, desired) /\ UNCHANGED rt

Delete == delete_selected /\ UNCHANGED rt

Next == Spawn \/ Select \/ SelectAt \/ Move \/ Delete

Spec == Init /\ [][Next]_vars

----------------------------------------------------------------------------
(* The round trip: a caller spawns nodes into a fresh model, then selects   *)
(* each created node, newest first, and calls delete_selected on it.        *)

\* The caller spawns (or fails to).
RTSpawn == rt.pc = "build" /\ Spawn

\* The caller stops spawning and turns to the newest created node.
RTBegin ==
    /\ rt.pc = "build"
    /\ rt' = IF allocated # <<>> THEN [pc |-> "select", k |-> Len(allocated)]
             ELSE [pc |-> "done", k |-> 0]
    /\ UNCHANGED <<model_state, call, ret, history, del_log>>

\* select_node on the k-th created node.
RTSelect ==
    /\ rt.pc = "select"
    /\ SelectNode(allocated[rt.k])
    /\ rt' = [rt EXCEPT !.pc = "delete"]

\* delete_selected, then on to the node created before.
RTDelete ==
    /\ rt.pc = "delete"
    /\ delete_selected
    /\ rt' = IF rt.k > 1 THEN [pc |-> "select", k |-> rt.k - 1]
             ELSE [pc |-> "done", k |-> 0]

RTNext == RTSpawn \/ RTBegin \/ RTSelect \/ RTDelete

SpecRoundTrip == Init /\ [][RTNext]_vars

----------------------------------------------------------------------------
(* The model with few nodes, dragged to more places within more canvases *)

GeomSpawn == next_id <= MaxGeomNodes /\ Spawn

GeomMove == \E canvas_rect \in GeomRects, desired \in GeomDesired :
                move_selected_within(canvas_rect, desired) /\ UNCHANGED rt

GeomNext == GeomSpawn \/ Select \/ SelectAt \/ GeomMove \/ Delete

SpecGeom == Init /\ [][GeomNext]_vars

----------------------------------------------------------------------------
(* What the properties below are stated in *)

\* A step that is a call of spawn_from_palette / delete_selected.
SpawnStep == call'.op = "spawn"

SpawnOk == call'.op = "spawn" /\ ret' # None

DeleteStep == call'.op = "delete"

\* The eligibility table: <<child kind, parent kind>>.
EligibilityTable ==
    {<<"entity", "environment">>, <<"environment", "root">>, <<"environment", "entity">>}

\* Candidate c is an existing node that may contain a child of this kind.
Eligible(c, child_kind) ==
    /\ c # None
    /\ c \in DOMAIN nodes
    /\ <<child_kind, nodes[c].kind>> \in EligibilityTable

IsEnvironment(c) == c \in DOMAIN nodes /\ nodes[c].kind = "environment"

RECURSIVE Closure(_, _)
\* The ids reachable from the set S through children lists of table t.
Closure(t, S) ==
    LET S2 == S \cup UNION {Range(t[n].children) : n \in S \cap DOMAIN t}
    IN  IF S2 = S THEN S ELSE Closure(t, S2)

\* A node and all nodes transitively reachable from it through children.
Subtree(t, id) == Closure(t, {id})

\* The label of the k-th spawn of an item named B.
ExpectedLabel(B, k) == IF k = 1 THEN B ELSE B \o " #" \o ToString(k)

\* The ids removed from the table by the last delete_selected.
Removed == {e[2] : e \in {x \in Range(del_log) : x[1] = "pop"}}

----------------------------------------------------------------------------
(* C1: in every reachable state the table holds exactly one node of kind   *)
(* root; it has id 0 and parent None, so no delete_selected removed it,    *)
(* and it is never the node spawn_from_palette returns.                    *)
C1_SingleRoot ==
    /\ {i \in DOMAIN nodes : nodes[i].kind = "root"} = {root_id}
    /\ nodes[root_id].id = 0
    /\ nodes[root_id].parent = None
    /\ call.op = "spawn" => ret # root_id

\* A delete_selected has just emptied a scene of two or more nodes.
C1_Witness ==
    /\ call.op = "delete"
    /\ Cardinality(Removed) >= 2
    /\ DOMAIN nodes = {root_id}

(* C2: in every reachable state selected_id is None or the id of a node    *)
(* that is in the table and is not the root.                               *)
C2_SelectionValid ==
    selected_id = None \/ (selected_id \in DOMAIN nodes /\ selected_id # root_id)

\* A subtree deletion has just moved the selection to a surviving node.
C2_Witness ==
    /\ call.op = "delete"
    /\ Cardinality(Removed) >= 2
    /\ selected_id # None

(* C3: in every reachable state every entity's parent is an environment    *)
(* and every environment's parent is the root or an entity; no environment *)
(* is the child of an environment.                                         *)
C3_KindsNest ==
    \A i \in DOMAIN nodes \ {root_id} :
        /\ nodes[i].parent \in DOMAIN nodes
        /\ nodes[i].kind = "entity" => nodes[nodes[i].parent].kind = "environment"
        /\ nodes[i].kind = "environment"
               => nodes[nodes[i].parent].kind \in {"root", "entity"}

\* An environment was spawned with an environment as the parent hint, and
\* went elsewhere.
C3_Witness ==
    /\ call.op = "spawn"
    /\ call.kind = "environment"
    /\ IsEnvironment(call.id)
    /\ ret \in DOMAIN nodes
    /\ nodes[ret].parent # call.id

(* C4: spawn_from_palette with kind entity returns no node and leaves the  *)
(* table unchanged whenever none of the parent hint, the selection and the *)
(* root is an existing environment.                                        *)
C4_EntityNeedsEnvironment ==
    [][(/\ SpawnStep
        /\ call'.kind = "entity"
        /\ \A c \in {call'.id, selected_id, root_id} : ~IsEnvironment(c))
       => (ret' = None /\ nodes' = nodes)]_vars

\* An entity the registry knows was refused although the scene holds an
\* environment: the hint and the selection name none.
C4_Witness ==
    /\ call.op = "spawn"
    /\ call.kind = "entity"
    /\ get_item(call.kind, call.idx).found
    /\ ret = None
    /\ \A c \in {call.id, selected_id, root_id} : ~IsEnvironment(c)
    /\ \E i \in DOMAIN nodes : nodes[i].kind = "environment"
    /\ selected_id # None
    /\ call.id \in DOMAIN nodes

(* C5: a spawn_from_palette that fails (no item for (kind, index), or no   *)
(* eligible candidate parent) returns no node and leaves the table, every  *)
(* children list, the creation order, the id counter, the label counters   *)
(* and the selection as they were, and invokes no factory.                 *)
C5_FailedSpawnChangesNothing ==
    [][(/\ SpawnStep
        /\ \/ ret' = None
           \/ ~get_item(call'.kind, call'.idx).found
           \/ \A c \in {call'.id, selected_id, root_id} : ~Eligible(c, call'.kind))
       => (/\ ret' = None
           /\ UNCHANGED <<nodes, order, label_counts, next_id, selected_id>>
           /\ factory_calls' = factory_calls)]_vars

\* A spawn of a known item was refused for want of a parent, in a scene
\* that has nodes, labels and a selection to lose.
C5_Witness ==
    /\ call.op = "spawn"
    /\ get_item(call.kind, call.idx).found
    /\ ret = None
    /\ selected_id # None
    /\ Len(order) >= 2
    /\ factory_calls >= 2

(* C6: on a successful spawn the new node's parent is the first of parent  *)
(* hint, selection, root that is an existing node the eligibility table    *)
(* allows; a hint that is None, unknown or ineligible is skipped, and the  *)
(* spawn of a known item succeeds whenever some candidate is eligible.     *)
C6_FirstEligibleParent ==
    [][SpawnStep =>
        LET kind == call'.kind
            hint == call'.id
            first == IF Eligible(hint, kind) THEN hint
                     ELSE IF Eligible(selected_id, kind) THEN selected_id
                     ELSE root_id
        IN  /\ ret' # None => nodes'[ret'].parent = first
            /\ (/\ get_item(kind, call'.idx).found
                /\ \E c \in {hint, selected_id, root_id} : Eligible(c, kind))
               => ret' # None]_vars

\* A hint that names an existing but ineligible node was skipped and the
\* node went under the selection, not the root.
C6_Witness ==
    /\ call.op = "spawn"
    /\ ret \in DOMAIN nodes
    /\ call.id \in DOMAIN nodes
    /\ nodes[ret].parent # call.id
    /\ nodes[ret].parent # root_id

(* C7: for every base name B the k-th successful spawn of an item named B, *)
(* over the model's lifetime and across kinds, is labelled B when k = 1    *)
(* and "B #k" when k >= 2, whatever was deleted in between.                *)
C7_LabelSequence ==
    /\ \A B \in DOMAIN issued :
           \A k \in 1..Len(issued[B]) : issued[B][k] = ExpectedLabel(B, k)
    /\ (call.op = "spawn" /\ ret # None) =>
           LET B == nodes[ret].base_name
           IN  nodes[ret].name = issued[B][Len(issued[B])]

\* The third "Rock" was spawned after an earlier one was deleted, and one
\* of the three is an entity, one an environment.
C7_Witness ==
    /\ call.op = "spawn"
    /\ ret \in DOMAIN nodes
    /\ nodes[ret].name = "Rock #3"
    /\ Cardinality({i \in DOMAIN nodes : nodes[i].base_name = "Rock"}) = 2
    /\ \E i \in DOMAIN nodes :
           nodes[i].base_name = "Rock" /\ nodes[i].kind # nodes[ret].kind

(* C8: the ids of spawned nodes are unique and strictly increasing in      *)
(* creation order over the model's lifetime, deleted nodes included, none  *)
(* is the root's, and a failed spawn consumes no id.                       *)
C8_IdsIncrease ==
    [][/\ SpawnOk =>
           /\ \A i \in DOMAIN allocated : ret' > allocated[i]
           /\ ret' > root_id
           /\ ret' \notin DOMAIN nodes
           /\ nodes'[ret'].id = ret'
       /\ (SpawnStep /\ ret' = None) =>
           /\ next_id' = next_id
           /\ allocated' = allocated]_vars

\* A node was spawned after both earlier nodes were deleted.
C8_Witness ==
    /\ call.op = "spawn"
    /\ ret = 3
    /\ DOMAIN nodes = {root_id, 3}

(* C9: after a successful spawn the new node is in the table, its id is    *)
(* the last of the creation order and of the resolved parent's children,   *)
(* it is selected, and every other node is as it was.                      *)
C9_SpawnEffect ==
    [][SpawnOk =>
        /\ ret' \notin DOMAIN nodes
        /\ DOMAIN nodes' = DOMAIN nodes \cup {ret'}
        /\ nodes'[ret'].id = ret'
        /\ nodes'[ret'].children = <<>>
        /\ order' = Append(order, ret')
        /\ selected_id' = ret'
        /\ LET p == nodes'[ret'].parent
           IN  /\ p \in DOMAIN nodes
               /\ nodes'[p] = [nodes[p] EXCEPT !.children = Append(@, ret')]
               /\ \A i \in DOMAIN nodes \ {p} : nodes'[i] = nodes[i]]_vars

\* The new node joined a parent that already had a child.
C9_Witness ==
    /\ call.op = "spawn"
    /\ ret \in DOMAIN nodes
    /\ Len(nodes[nodes[ret].parent].children) >= 2
    /\ nodes[ret].parent # root_id

(* C10: delete_selected with a selection removes exactly the selected node *)
(* and the nodes reachable from it through children: none of them is left  *)
(* in the table, the creation order or a children list, no other node is   *)
(* removed, and the table shrinks by the size of that subtree.             *)
C10_DeleteRemovesSubtree ==
    [][(DeleteStep /\ selected_id # None) =>
        LET S == Subtree(nodes, selected_id)
        IN  /\ DOMAIN nodes' = DOMAIN nodes \ S
            /\ Range(order') \cap S = {}
            /\ \A i \in DOMAIN nodes' : Range(nodes'[i].children) \cap S = {}
            /\ Cardinality(DOMAIN nodes') = Cardinality(DOMAIN nodes) - Cardinality(S)
            /\ Cardinality(S) >= 1]_vars

\* A node with a descendant was deleted and a node outside the subtree
\* survives.
C10_Witness ==
    /\ call.op = "delete"
    /\ Cardinality(Removed) >= 2
    /\ DOMAIN nodes # {root_id}

----------------------------------------------------------------------------
\* The most recently created node that is in table t: the last id handed out
\* that t still holds.
Newest(t) ==
    LET live == {i \in DOMAIN allocated : allocated[i] \in DOMAIN t}
    IN  allocated[CHOOSE i \in live : \A j \in live : j <= i]

(* C11: after delete_selected removed a node, selected_id is that node's   *)
(* original parent if the parent is still in the table and is not the      *)
(* root; otherwise the most recently created node still in the table, if   *)
(* a non-root node remains; otherwise None.                                *)
C11_SelectionAfterDelete ==
    [][(DeleteStep /\ selected_id \in DOMAIN nodes) =>
        LET p == nodes[selected_id].parent
        IN  /\ selected_id \notin DOMAIN nodes'
            /\ selected_id' =
                   IF p \in DOMAIN nodes' /\ p # root_id THEN p
                   ELSE IF DOMAIN nodes' # {root_id} THEN Newest(nodes')
                   ELSE None]_vars

\* A child of the root was deleted while two other nodes remain, and the
\* selection fell back to one of them.
C11_Witness ==
    /\ call.op = "delete"
    /\ del_log # <<>>
    /\ del_log[1][1] = "pop"
    /\ del_log[1][3] = root_id
    /\ Len(order) >= 2
    /\ selected_id = order[Len(order)]

(* C12: from a fresh model, after any N successful spawns, selecting each  *)
(* created node newest first and calling delete_selected on it leaves the  *)
(* table holding only the root, with no children, an empty creation order  *)
(* and no selection.                                                       *)
C12_RoundTrip ==
    rt.pc = "done" =>
        /\ DOMAIN nodes = {root_id}
        /\ nodes[root_id] = _create_root
        /\ order = <<>>
        /\ selected_id = None

\* The round trip of three spawned nodes has ended.
C12_Witness ==
    /\ rt.pc = "done"
    /\ Len(allocated) >= 3
    /\ call.op = "delete"

(* C13: in every reachable state every non-root node's parent field is the *)
(* id of a node that is in the table.                                      *)
C13_ParentExists ==
    \A i \in DOMAIN nodes \ {root_id} :
        nodes[i].parent # None /\ nodes[i].parent \in DOMAIN nodes

\* A node with two children was deleted.
C13_Witness ==
    /\ call.op = "delete"
    /\ \E e, f \in Range(del_log) :
           /\ e[1] = "pop" /\ f[1] = "pop"
           /\ e[2] # f[2]
           /\ e[3] = f[3]
           /\ e[3] \in Removed

\* How many times x occurs in sequence s.
Count(s, x) == Cardinality({k \in DOMAIN s : s[k] = x})

(* C14: in every reachable state each non-root node's id occurs exactly    *)
(* once in its parent's children and in no other node's children, and      *)
(* every id in a children list is the id of a node in the table.           *)
C14_ChildrenMatchParents ==
    /\ \A i \in DOMAIN nodes \ {root_id} :
           /\ nodes[i].parent \in DOMAIN nodes
           /\ Count(nodes[nodes[i].parent].children, i) = 1
           /\ \A j \in DOMAIN nodes \ {nodes[i].parent} :
                  Count(nodes[j].children, i) = 0
    /\ \A j \in DOMAIN nodes : Range(nodes[j].children) \subseteq DOMAIN nodes \ {root_id}

\* A node was detached from a parent that keeps another child.
C14_Witness ==
    /\ call.op = "delete"
    /\ \E e \in Range(del_log) :
           /\ e[1] = "detach"
           /\ e[3] \in DOMAIN nodes
           /\ nodes[e[3]].children # <<>>
           /\ e[3] # root_id

(* C15: select_node(id) sets selected_id to None when id is None, is not   *)
(* in the table or is the root id, and to id otherwise; the table, the     *)
(* children lists, the creation order and the counters stay as they were.  *)
C15_SelectNode ==
    [][call'.op = "select" =>
        /\ selected_id' =
               IF call'.id = None \/ call'.id \notin DOMAIN nodes \/ call'.id = root_id
               THEN None
               ELSE call'.id
        /\ UNCHANGED <<nodes, order, label_counts, next_id>>]_vars

\* select_node was called with an id the table does not hold, in a scene
\* that has nodes.
C15_Witness ==
    /\ call.op = "select"
    /\ call.id # None
    /\ call.id \notin DOMAIN nodes
    /\ order # <<>>
    /\ selected_id = None

\* The nodes whose payload is there and has a position.
WithPosition ==
    {i \in DOMAIN nodes : nodes[i].payload.present /\ nodes[i].payload.has_pos}

\* The squared Euclidean distance from point m to node i.
Dist2(m, i) ==
    LET p == nodes[i].payload.pos
    IN  (m[1] - p[1]) * (m[1] - p[1]) + (m[2] - p[2]) * (m[2] - p[2])

\* The place of node i among the nodes ever created.
Rank(i) == CHOOSE k \in DOMAIN allocated : allocated[k] = i

(* C16: when some node has a payload with a position,                      *)
(* select_at_position(point) selects and returns a node at minimal squared *)
(* distance from the point, the earliest created among those at that       *)
(* distance, whatever the radii and the selection before.                  *)
C16_NearestNode ==
    [][(call'.op = "select_at" /\ WithPosition # {}) =>
        /\ ret' \in WithPosition
        /\ selected_id' = ret'
        /\ \A n \in WithPosition :
               /\ Dist2(call'.pos, ret') <= Dist2(call'.pos, n)
               /\ Dist2(call'.pos, ret') = Dist2(call'.pos, n) => Rank(ret') <= Rank(n)]_vars

\* Two nodes of different radius at different places are equally near the
\* point, and the one created first was chosen.
C16_Witness ==
    /\ call.op = "select_at"
    /\ ret \in WithPosition
    /\ \E n \in WithPosition :
           /\ n > ret
           /\ Dist2(call.pos, n) = Dist2(call.pos, ret)
           /\ nodes[n].payload.pos # nodes[ret].payload.pos
           /\ nodes[n].payload.radius # nodes[ret].payload.radius

(* C17: select_at_position called when no node has a payload returns       *)
(* absent and leaves selected_id as it was before the call.                *)
C17_EmptyDrawableSet ==
    [][(call'.op = "select_at" /\ \A i \in DOMAIN nodes : ~nodes[i].payload.present) =>
        /\ ret' = None
        /\ selected_id' = selected_id]_vars

\* select_at_position was called on a scene emptied by deletions.
C17_Witness ==
    /\ call.op = "select_at"
    /\ ret = None
    /\ \A i \in DOMAIN nodes : ~nodes[i].payload.present
    /\ next_id > 1

(* C18: if no node has both a payload and a position, also when nodes      *)
(* exist and one is selected, select_at_position returns absent and sets   *)
(* selected_id to None.                                                    *)
C18_NoPositionClears ==
    [][(call'.op = "select_at" /\ WithPosition = {}) =>
        /\ ret' = None
        /\ selected_id' = None]_vars

\* select_at_position was called on a scene whose nodes have payloads but
\* no positions.
C18_Witness ==
    /\ call.op = "select_at"
    /\ ret = None
    /\ selected_id = None
    /\ WithPosition = {}
    /\ Len(order) >= 2

\* A step that is a call of move_selected_within on a selected node whose
\* payload has a position.
MoveStep == call'.op = "move" /\ selected_id \in WithPosition

\* The clamp range of the selected node on each axis, for the canvas of the
\* call, and the position the call left.
LowX == call'.rect.left + nodes[selected_id].payload.radius

HighX == call'.rect.right - nodes[selected_id].payload.radius

LowY == call'.rect.top + nodes[selected_id].payload.radius

HighY == call'.rect.bottom - nodes[selected_id].payload.radius

NewPos == nodes'[selected_id].payload.pos

(* C19 as stated: after move_selected_within on a selected node with a     *)
(* position, x lies in [left + radius, right - radius] and y lies in       *)
(* [top + radius, bottom - radius], for every desired position, radius     *)
(* and bound size.                                                         *)
C19_AlwaysInsideBound ==
    [][MoveStep =>
        /\ LowX <= NewPos[1] /\ NewPos[1] <= HighX
        /\ LowY <= NewPos[2] /\ NewPos[2] <= HighY]_vars

(* C19 amended: on each axis where the range is not inverted               *)
(* (min + radius <= max - radius) the coordinate lies in                   *)
(* [min + radius, max - radius], for every desired position.               *)
C19_InsideBoundWhenItFits ==
    [][MoveStep =>
        /\ LowX <= HighX => (LowX <= NewPos[1] /\ NewPos[1] <= HighX)
        /\ LowY <= HighY => (LowY <= NewPos[2] /\ NewPos[2] <= HighY)]_vars

\* A node of radius 1 was dragged far beyond the right and bottom edges of
\* a canvas it fits in, and sits one radius inside them.
C19_Witness ==
    /\ call.op = "move"
    /\ selected_id \in WithPosition
    /\ nodes[selected_id].payload.radius = 1
    /\ call.rect.left + 1 < call.rect.right - 1
    /\ call.pos[1] > call.rect.right
    /\ call.pos[2] > call.rect.bottom
    /\ nodes[selected_id].payload.pos = <<call.rect.right - 1, call.rect.bottom - 1>>

(* C20: on an axis where the selected node's diameter exceeds the bound's  *)
(* extent (min + radius > max - radius) move_selected_within sets the      *)
(* coordinate to min + radius for every desired value.                     *)
C20_PinnedToNearEdge ==
    [][MoveStep =>
        /\ LowX > HighX => NewPos[1] = LowX
        /\ LowY > HighY => NewPos[2] = LowY]_vars

\* A node of radius 1 was dragged far right and down within a canvas of
\* width and height 1, and sits at left + 1, top + 1.
C20_Witness ==
    /\ call.op = "move"
    /\ selected_id \in WithPosition
    /\ nodes[selected_id].payload.radius = 1
    /\ call.rect.right - call.rect.left = 1
    /\ call.rect.bottom - call.rect.top = 1
    /\ call.pos[1] > call.rect.right
    /\ call.pos[2] > call.rect.bottom
    /\ nodes[selected_id].payload.pos = <<call.rect.left + 1, call.rect.top + 1>>

(* C21: move_selected_within changes nothing when there is no selection or *)
(* the selected node's payload has no position; otherwise it changes only  *)
(* the selected node's payload position: the table's ids, every other      *)
(* field of every node, every other node's position, the creation order,   *)
(* the counters and selected_id stay as they were.                         *)
C21_MoveFrame ==
    [][call'.op = "move" =>
        /\ UNCHANGED <<order, label_counts, next_id, selected_id>>
        /\ DOMAIN nodes' = DOMAIN nodes
        /\ selected_id \notin WithPosition => nodes' = nodes
        /\ selected_id \in WithPosition =>
               \A i \in DOMAIN nodes :
                   /\ i # selected_id => nodes'[i] = nodes[i]
                   /\ nodes'[i] = [nodes[i] EXCEPT !.payload.pos = nodes'[i].payload.pos]]_vars

\* The selected node was dragged away from where it was spawned while
\* another node stays there, and a third node's payload has no position.
C21_Witness ==
    /\ call.op = "move"
    /\ selected_id \in WithPosition
    /\ nodes[selected_id].payload.pos \notin SpawnPoints
    /\ \E i \in WithPosition \ {selected_id} : nodes[i].payload.pos \in SpawnPoints
    /\ \E i \in DOMAIN nodes \ {root_id} : i \notin WithPosition

(* C22: the parent field of a node is the same in every state from its     *)
(* creation until its removal: no spawn, select, move or delete step       *)
(* changes the parent of a node that is in the table before and after it   *)
(* (ids are never given out twice, so such a node is the same node).       *)
C22_ParentImmutable ==
    [][\A i \in DOMAIN nodes \cap DOMAIN nodes' :
           nodes'[i].parent = nodes[i].parent]_vars

\* A node below a non-root parent has outlived the deletion of another
\* subtree.
C22_Witness ==
    /\ call.op = "delete"
    /\ Removed # {}
    /\ \E i \in DOMAIN nodes \ {root_id} :
           /\ nodes[i].parent # root_id
           /\ nodes[i].parent \in DOMAIN nodes
           /\ \E r \in Removed : r < i

RECURSIVE Depth(_)
\* The length of node i's parent chain up to the root.
Depth(i) ==
    IF nodes[i].parent = None \/ nodes[i].parent \notin DOMAIN nodes THEN 0
    ELSE 1 + Depth(nodes[i].parent)

(* C23: in every reachable state iter_tree yields every node of the table  *)
(* exactly once, (0, root) first, in depth-first pre-order: a node is      *)
(* followed at once by the block of its descendants, its children's blocks *)
(* in children list order; the depth yielded with a node is the length of  *)
(* its parent chain; every node is reachable from the root.                *)
C23_IterTree ==
    LET t      == iter_tree
        Pos(i) == CHOOSE k \in DOMAIN t : t[k][2] = i
    IN  /\ t[1] = <<0, root_id>>
        /\ Len(t) = Cardinality(DOMAIN nodes)
        /\ {t[k][2] : k \in DOMAIN t} = DOMAIN nodes
        /\ \A k \in DOMAIN t : t[k][1] = Depth(t[k][2])
        /\ \A n \in DOMAIN nodes :
               /\ {Pos(d) : d \in Subtree(nodes, n)}
                      = Pos(n) .. (Pos(n) + Cardinality(Subtree(nodes, n)) - 1)
               /\ \A a, b \in DOMAIN nodes[n].children :
                      a < b => Pos(nodes[n].children[a]) < Pos(nodes[n].children[b])
        /\ Subtree(nodes, root_id) = DOMAIN nodes

\* The root has two children and the first has a child created last, so the
\* traversal order is not the creation order.
C23_Witness ==
    iter_tree = <<<<0, 0>>, <<1, 1>>, <<2, 3>>, <<1, 2>>>>

(* C24: in every reachable state iter_drawable_nodes yields exactly the     *)
(* nodes of the table that have a payload, each once, in creation order;   *)
(* the creation-order list holds exactly the ids of the non-root nodes in  *)
(* the table, without duplicates and strictly increasing.                  *)
C24_DrawableNodes ==
    LET ds == iter_drawable_nodes
    IN  /\ Range(order) = DOMAIN nodes \ {root_id}
        /\ \A a, b \in DOMAIN order : a < b => order[a] < order[b]
        /\ Range(ds) = {i \in DOMAIN nodes : nodes[i].payload.present}
        /\ \A a, b \in DOMAIN ds : a < b => Rank(ds[a]) < Rank(ds[b])

\* The first and the last node created are drawn, the one created between
\* them was deleted.
C24_Witness ==
    /\ iter_drawable_nodes = <<1, 3>>
    /\ allocated = <<1, 2, 3>>
    /\ call.op = "spawn"

\* The parent of a node the last delete_selected removed, as it was when the
\* node left the table.
LogParent(d) == (CHOOSE e \in Range(del_log) : e[1] = "pop" /\ e[2] = d)[3]

RECURSIVE LogAncestors(_)
\* The removed nodes above removed node d.
LogAncestors(d) ==
    IF LogParent(d) \in Removed
    THEN {LogParent(d)} \cup LogAncestors(LogParent(d))
    ELSE {}

\* The removed nodes below removed node n.
LogDescendants(n) == {d \in Removed : n \in LogAncestors(d)}

(* C25 as stated: during delete_selected a node is detached from its       *)
(* parent's children, removed from the table and removed from the          *)
(* creation-order list only after each of its descendants has been removed *)
(* from the table and from the creation-order list.                        *)
C25_PostOrder ==
    \A k, j \in DOMAIN del_log :
        (/\ del_log[j][2] \in LogDescendants(del_log[k][2])
         /\ del_log[j][1] \in {"pop", "unorder"})
        => j < k

(* C25 amended: a node is detached from its parent's children and removed  *)
(* from the creation-order list only after each of its descendants has     *)
(* been removed from the table and from the creation-order list; the node  *)
(* itself leaves the table before any of its descendants is processed.     *)
C25_DetachAndUnorderLast ==
    \A k, j \in DOMAIN del_log :
        del_log[j][2] \in LogDescendants(del_log[k][2]) =>
            /\ (del_log[k][1] \in {"detach", "unorder"}
                    /\ del_log[j][1] \in {"pop", "unorder"}) => j < k
            /\ del_log[k][1] = "pop" => k < j

\* A chain of three nodes was deleted from its top.
C25_Witness ==
    /\ call.op = "delete"
    /\ \E d \in Removed : Cardinality(LogAncestors(d)) = 2

\* Sequence s is strictly increasing.
Increasing(s) == \A a, b \in DOMAIN s : a < b => s[a] < s[b]

(* C26: in every reachable state each node's children list is strictly     *)
(* increasing by id (creation order), and a delete_selected leaves every   *)
(* surviving node's children list as it was, less the removed ids, in the  *)
(* same relative order.                                                    *)
C26_ChildrenInCreationOrder ==
    [][/\ \A j \in DOMAIN nodes : Increasing(nodes[j].children)
       /\ \A j \in DOMAIN nodes' : Increasing(nodes'[j].children)
       /\ DeleteStep =>
              \A j \in DOMAIN nodes' :
                  nodes'[j].children =
                      SelectSeq(nodes[j].children, LAMBDA c : c \in DOMAIN nodes')]_vars

\* The middle one of three siblings was deleted.
C26_Witness ==
    /\ call.op = "delete"
    /\ \E e \in Range(del_log) :
           /\ e[1] = "detach"
           /\ e[3] \in DOMAIN nodes
           /\ Len(nodes[e[3]].children) = 2
           /\ nodes[e[3]].children[1] < e[2]
           /\ e[2] < nodes[e[3]].children[2]

(* C27: in every reachable state spawn_from_palette of kind environment    *)
(* with a (kind, index) the registry knows returns a node, whatever the    *)
(* parent hint (None, an unknown id, any node) and the selection: the root *)
(* is always an eligible last candidate.                                   *)
C27_EnvironmentAlwaysSpawns ==
    [][(/\ SpawnStep
        /\ call'.kind = "environment"
        /\ get_item(call'.kind, call'.idx).found)
       => /\ Eligible(root_id, "environment")
          /\ ret' # None
          /\ ret' \in DOMAIN nodes'
          /\ nodes'[ret'].kind = "environment"]_vars

\* An environment was spawned with an environment as the hint while another
\* environment exists, and went under the root.
C27_Witness ==
    /\ call.op = "spawn"
    /\ call.kind = "environment"
    /\ ret \in DOMAIN nodes
    /\ IsEnvironment(call.id)
    /\ call.id # ret
    /\ nodes[ret].parent = root_id
    /\ \E s \in DOMAIN nodes \ {call.id, ret, root_id} : nodes[s].kind = "environment"

(* C28: delete_selected with no selection changes nothing; with a          *)
(* selection it leaves the id counter and the label counters as they were, *)
(* and every node outside the deleted subtree stays in the table with its  *)
(* id, kind, name, payload, parent and children, except that the deleted   *)
(* node's id leaves its parent's children.                                 *)
C28_DeleteFrame ==
    [][DeleteStep =>
        /\ selected_id = None => UNCHANGED <<nodes, order, label_counts, next_id, selected_id>>
        /\ selected_id \in DOMAIN nodes =>
               LET S == Subtree(nodes, selected_id)
                   p == nodes[selected_id].parent
               IN  /\ UNCHANGED <<next_id, label_counts>>
                   /\ \A i \in DOMAIN nodes \ S :
                          /\ i \in DOMAIN nodes'
                          /\ nodes'[i] =
                                 IF i = p
                                 THEN [nodes[i] EXCEPT !.children =
                                          SelectSeq(@, LAMBDA c : c # selected_id)]
                                 ELSE nodes[i]]_vars

\* A node with a child was deleted from under the root, which keeps
\* another child.
C28_Witness ==
    /\ call.op = "delete"
    /\ Cardinality(Removed) = 2
    /\ \E e \in Range(del_log) : e[1] = "detach" /\ e[3] = root_id
    /\ nodes[root_id].children # <<>>
    /\ label_counts # <<>>

(* C29: after a delete_selected that removed a node, selected_id is None   *)
(* exactly when the table holds only the root, and otherwise is a          *)
(* remaining non-root node; each such call shrinks the table, so repeated  *)
(* calls alone empty the scene down to the root.                           *)
C29_SelectionUntilEmpty ==
    [][(DeleteStep /\ selected_id \in DOMAIN nodes) =>
        /\ selected_id' = None <=> DOMAIN nodes' = {root_id}
        /\ DOMAIN nodes' # {root_id} => selected_id' \in DOMAIN nodes' \ {root_id}
        /\ Cardinality(DOMAIN nodes') < Cardinality(DOMAIN nodes)]_vars

\* A child of the root was deleted and the selection fell back to a node
\* deeper in another subtree.
C29_Witness ==
    /\ call.op = "delete"
    /\ del_log # <<>>
    /\ del_log[1][3] = root_id
    /\ selected_id \in DOMAIN nodes
    /\ nodes[selected_id].parent # root_id

(* C30: in every reachable state no two nodes of the table that share a    *)
(* base_name have the same display name.                                   *)
C30_NamesDistinct ==
    \A i, j \in DOMAIN nodes :
        (i # j /\ nodes[i].base_name = nodes[j].base_name)
            => nodes[i].name # nodes[j].name

\* Two nodes share a base name, and the newer one was spawned after an
\* older node of that base name was deleted.
C30_Witness ==
    /\ call.op = "spawn"
    /\ ret \in DOMAIN nodes
    /\ Len(Get(issued, nodes[ret].base_name, <<>>)) = 3
    /\ Cardinality({i \in DOMAIN nodes : nodes[i].base_name = nodes[ret].base_name}) = 2
    /\ nodes[ret].parent # root_id

====
